---- MODULE Spec2Model ----
(***************************************************************************)
(* Model of records/state (state.go) and records/state/upid (upid.go) of   *)
(* mesos-dns: port range expansion, status selection, the IP sources,      *)
(* Task.IPs, MapPort and the UPID parser.                                  *)
(*                                                                         *)
(* Go strings that the code takes apart (port ranges, IP candidates, UPID  *)
(* inputs) are sequences of one-character strings, so that Split, Trim,    *)
(* Atoi, Itoa and the address parsers are computed character by character. *)
(* Strings that the code only compares (label keys, source names, status   *)
(* states) stay TLA+ strings.  A Go call that panics yields Panic.         *)
(***************************************************************************)
EXTENDS Integers, Sequences, FiniteSets, TLC

VARIABLES task, written, input, op, arg, res

vars == <<task, written, input, op, arg, res>>

(***************************************************************************)
(* Outcomes of a call.                                                     *)
(***************************************************************************)
Ok(v) == [panic |-> FALSE, val |-> v]

Panic == [panic |-> TRUE, val |-> <<>>]

NoCall == [panic |-> FALSE, val |-> <<>>]

(***************************************************************************)
(* strings, strconv                                                        *)
(***************************************************************************)
Digits == {"0", "1", "2", "3", "4", "5", "6", "7", "8", "9"}

DigitVal(c) ==
    CASE c = "0" -> 0 [] c = "1" -> 1 [] c = "2" -> 2 [] c = "3" -> 3
      [] c = "4" -> 4 [] c = "5" -> 5 [] c = "6" -> 6 [] c = "7" -> 7
      [] c = "8" -> 8 [] c = "9" -> 9

DigitChar(d) ==
    CASE d = 0 -> "0" [] d = 1 -> "1" [] d = 2 -> "2" [] d = 3 -> "3"
      [] d = 4 -> "4" [] d = 5 -> "5" [] d = 6 -> "6" [] d = 7 -> "7"
      [] d = 8 -> "8" [] d = 9 -> "9"

RECURSIVE SplitFrom(_, _, _, _)
SplitFrom(s, sep, i, cur) ==
    IF i > Len(s) THEN <<cur>>
    ELSE IF s[i] = sep THEN <<cur>> \o SplitFrom(s, sep, i + 1, <<>>)
    ELSE SplitFrom(s, sep, i + 1, Append(cur, s[i]))

\* strings.Split(s, sep) for a one-character separator: one more piece than
\* there are separators in s.
Split(s, sep) == SplitFrom(s, sep, 1, <<>>)

RECURSIVE TrimLeft(_, _)
TrimLeft(s, cutset) ==
    IF s # <<>> /\ Head(s) \in cutset THEN TrimLeft(Tail(s), cutset) ELSE s

RECURSIVE TrimRight(_, _)
TrimRight(s, cutset) ==
    IF s # <<>> /\ s[Len(s)] \in cutset
    THEN TrimRight(SubSeq(s, 1, Len(s) - 1), cutset)
    ELSE s

\* strings.Trim / bytes.Trim: drop leading and trailing characters of cutset.
Trim(s, cutset) == TrimRight(TrimLeft(s, cutset), cutset)

\* strings.TrimSpace (the only white space of the modelled alphabet is " ").
TrimSpace(s) == Trim(s, {" "})

RECURSIVE DigitsValue(_, _)
DigitsValue(s, acc) ==
    IF s = <<>> THEN acc ELSE DigitsValue(Tail(s), 10 * acc + DigitVal(Head(s)))

AllDigits(s) == \A i \in 1..Len(s) : s[i] \in Digits

\* strconv.Atoi: an optional sign, then one or more decimal digits.
Atoi(s) ==
    LET signed == s # <<>> /\ Head(s) \in {"+", "-"}
        body == IF signed THEN Tail(s) ELSE s
    IN  IF body = <<>> \/ ~AllDigits(body) THEN [err |-> TRUE, n |-> 0]
        ELSE [err |-> FALSE,
              n |-> IF signed /\ Head(s) = "-" THEN 0 - DigitsValue(body, 0)
                    ELSE DigitsValue(body, 0)]

RECURSIVE ItoaNat(_)
ItoaNat(n) ==
    IF n < 10 THEN <<DigitChar(n)>> ELSE Append(ItoaNat(n \div 10), DigitChar(n % 10))

\* strconv.Itoa
Itoa(n) == IF n < 0 THEN <<"-">> \o ItoaNat(0 - n) ELSE ItoaNat(n)

(***************************************************************************)
(* Resources.Ports                                                         *)
(***************************************************************************)
RECURSIVE ExpandRangeExclusive(_, _)
\* ExpandRange with the loop condition t < hi.
ExpandRangeExclusive(t, hi) ==
    IF t >= hi THEN <<>> ELSE <<Itoa(t)>> \o ExpandRangeExclusive(t + 1, hi)

RECURSIVE ExpandRange(_, _)
\* for t := lo; t <= hi; t++ { yports = append(yports, strconv.Itoa(t)) }
ExpandRange(t, hi) == IF t > hi THEN <<>> ELSE <<Itoa(t)>> \o ExpandRange(t + 1, hi)

RECURSIVE PortsLoop(_, _, _)
\* The loop over mports: a sub-range whose endpoint does not convert is logged
\* and skipped; pz[1] of a sub-range without "-" is an index out of range.
PortsLoop(mports, i, yports) ==
    IF i > Len(mports) THEN Ok(yports)
    ELSE LET tmp == TrimSpace(mports[i])
             pz == Split(tmp, "-")
             lo == Atoi(pz[1])
         IN  IF lo.err THEN PortsLoop(mports, i + 1, yports)
             ELSE IF Len(pz) < 2 THEN Panic
             ELSE LET hi == Atoi(pz[2])
                  IN  IF hi.err THEN PortsLoop(mports, i + 1, yports)
                      ELSE PortsLoop(mports, i + 1, yports \o ExpandRange(lo.n, hi.n))

Ports(PortRanges) ==
    IF PortRanges = <<>> \/ PortRanges = <<"[", "]">> THEN Ok(<<>>)
    ELSE LET parts == Split(PortRanges, "[")
         IN  IF Len(parts) < 2 THEN Panic
             ELSE LET rhs == parts[2]
                      lhs == Split(rhs, "]")[1]
                  IN  PortsLoop(Split(lhs, ","), 1, <<>>)

(***************************************************************************)
(* net.ParseIP, called by Task.IPs.  The candidate strings of the model    *)
(* hold no ":" and no octet with a leading zero, so only the dotted        *)
(* decimal branch is computed; a string with ":" before any "." is outside *)
(* the model and yields no address here.                                   *)
(***************************************************************************)
RECURSIVE LeadingDigits(_)
LeadingDigits(s) ==
    IF s # <<>> /\ Head(s) \in Digits THEN <<Head(s)>> \o LeadingDigits(Tail(s)) ELSE <<>>

RECURSIVE parseIPv4Octets(_, _, _)
\* The loop of parseIPv4: i octets are still to be read from s, p holds the
\* octets read so far.  The result is <<>> (nil) or the four octets.
parseIPv4Octets(s, i, p) ==
    IF i = 0 THEN (IF s = <<>> THEN p ELSE <<>>)
    ELSE IF s = <<>> THEN <<>>
    ELSE IF p # <<>> /\ Head(s) # "." THEN <<>>
    ELSE LET r == IF p # <<>> THEN Tail(s) ELSE s
             ds == LeadingDigits(r)
         IN  IF ds = <<>> \/ DigitsValue(ds, 0) > 255 THEN <<>>
             ELSE parseIPv4Octets(SubSeq(r, Len(ds) + 1, Len(r)), i - 1,
                                  Append(p, DigitsValue(ds, 0)))

\* net.IPv4(a, b, c, d): the 16-byte form with the v4-in-v6 prefix.
IPv4(p) == <<0, 0, 0, 0, 0, 0, 0, 0, 0, 0, 255, 255>> \o p

parseIPv4(s) ==
    LET p == parseIPv4Octets(s, 4, <<>>) IN IF p = <<>> THEN <<>> ELSE IPv4(p)

RECURSIVE FirstOf(_, _)
\* The first character of s that is in cs, or "" when there is none.
FirstOf(s, cs) ==
    IF s = <<>> THEN "" ELSE IF Head(s) \in cs THEN Head(s) ELSE FirstOf(Tail(s), cs)

ParseIP(s) == IF FirstOf(s, {".", ":"}) = "." THEN parseIPv4(s) ELSE <<>>

(***************************************************************************)
(* The IP sources                                                          *)
(***************************************************************************)
DockerIPLabel == "Docker.NetworkSettings.IPAddress"

MesosIPLabel == "MesosContainerizer.NetworkSettings.IPAddress"

InitTs == -1

RECURSIVE statusScan(_, _, _, _)
\* The loop of statusIPs: ts, j after statuses i..Len(st) have been looked at
\* (j is an index from 1; 0 stands for Go's -1).
statusScan(st, i, ts, j) ==
    IF i > Len(st) THEN j
    ELSE IF st[i].State = "TASK_RUNNING" /\ st[i].Timestamp > ts
         THEN statusScan(st, i + 1, st[i].Timestamp, i)
         ELSE statusScan(st, i + 1, ts, j)

RECURSIVE labelsLoop(_, _, _, _)
labelsLoop(ls, key, i, vs) ==
    IF i > Len(ls) THEN vs
    ELSE labelsLoop(ls, key, i + 1,
                    IF ls[i].Key = key THEN Append(vs, ls[i].Value) ELSE vs)

\* labels that stops at the first label with the key.
labelsFirstOnly(key, s) ==
    LET vs == labelsLoop(s.Labels, key, 1, <<>>)
    IN  IF vs = <<>> THEN <<>> ELSE <<vs[1]>>

\* labels(key)(s)
labels(key, s) == labelsLoop(s.Labels, key, 1, <<>>)

hostIPs(t) == t.SlaveIPs

RECURSIVE netinfoLoop(_, _, _)
netinfoLoop(nis, n, ips) ==
    IF n > Len(nis) THEN ips
    ELSE netinfoLoop(nis, n + 1,
            IF Len(nis[n].IPAddresses) > 0
            THEN ips \o [k \in 1..Len(nis[n].IPAddresses) |->
                            nis[n].IPAddresses[k].IPAddress]
            ELSE IF nis[n].IPAddress # <<>> THEN Append(ips, nis[n].IPAddress)
            ELSE ips)

\* The extraction closure of networkInfoIPs: make([]string, len(NetworkInfos))
\* is a slice of that many empty strings, and the loop appends to it.
netinfoSrc(s) ==
    LET nis == s.ContainerStatus.NetworkInfos
    IN  netinfoLoop(nis, 1, [k \in 1..Len(nis) |-> <<>>])

\* A func(*Status) []string handed to statusIPs is the closure labels(key) or
\* the closure of networkInfoIPs; src(s) applies it.
labelsClosure(key) == [fn |-> "labels", key |-> key]

netinfoClosure == [fn |-> "netinfo"]

src(f, s) == IF f.fn = "labels" THEN labels(f.key, s) ELSE netinfoSrc(s)

statusIPs(st, f) ==
    LET j == statusScan(st, 1, InitTs, 0)
    IN  IF j >= 1 THEN src(f, st[j]) ELSE <<>>

networkInfoIPs(t) == statusIPs(t.Statuses, netinfoClosure)

dockerIPs(t) == statusIPs(t.Statuses, labelsClosure(DockerIPLabel))

mesosIPs(t) == statusIPs(t.Statuses, labelsClosure(MesosIPLabel))

SourceNames == {"host", "mesos", "docker", "netinfo"}

\* sources[name](t)
sources(name, t) ==
    CASE name = "host" -> hostIPs(t)
      [] name = "mesos" -> mesosIPs(t)
      [] name = "docker" -> dockerIPs(t)
      [] name = "netinfo" -> networkInfoIPs(t)

RECURSIVE appendParsed(_, _, _)
\* The inner loop of Task.IPs over one source's strings.
appendParsed(cands, k, ips) ==
    IF k > Len(cands) THEN ips
    ELSE LET ip == ParseIP(cands[k])
         IN  appendParsed(cands, k + 1, IF Len(ip) > 0 THEN Append(ips, ip) ELSE ips)

RECURSIVE IPsLoop(_, _, _, _)
IPsLoop(t, srcs, i, ips) ==
    IF i > Len(srcs) THEN ips
    ELSE IPsLoop(t, srcs, i + 1,
                 IF srcs[i] \in SourceNames
                 THEN appendParsed(sources(srcs[i], t), 1, ips)
                 ELSE ips)

NilTask == [Statuses |-> <<>>, SlaveIPs |-> <<>>, PortRanges |-> <<>>, nil |-> TRUE]

\* IPs that walks the sources from the last to the first.
IPsReversed(t, srcs) ==
    IF t.nil THEN <<>>
    ELSE IPsLoop(t, [i \in 1..Len(srcs) |-> srcs[Len(srcs) + 1 - i]], 1, <<>>)

\* Task.IPs(srcs...)
IPs(t, srcs) == IF t.nil THEN <<>> ELSE IPsLoop(t, srcs, 1, <<>>)

(***************************************************************************)
(* MapPort                                                                 *)
(***************************************************************************)
RECURSIVE MapPortScan(_, _, _, _)
MapPortScan(ni, n, m, hostport) ==
    IF n > Len(ni) THEN hostport
    ELSE IF m > Len(ni[n].PortMappings) THEN MapPortScan(ni, n + 1, 1, hostport)
    ELSE IF ni[n].PortMappings[m].HostPort = hostport
         THEN ni[n].PortMappings[m].ContainerPort
         ELSE MapPortScan(ni, n, m + 1, hostport)

\* MapPort that looks at the last status instead of the first.
MapPortLastStatus(t, hostport) ==
    IF Len(t.Statuses) = 0 THEN Panic
    ELSE Ok(MapPortScan(t.Statuses[Len(t.Statuses)].ContainerStatus.NetworkInfos,
                        1, 1, hostport))

\* t.Statuses[0] of a Task without statuses is an index out of range.
MapPort(t, hostport) ==
    IF Len(t.Statuses) = 0 THEN Panic
    ELSE Ok(MapPortScan(t.Statuses[1].ContainerStatus.NetworkInfos, 1, 1, hostport))

(***************************************************************************)
(* net.SplitHostPort and net.ResolveTCPAddr, called by upid.Parse          *)
(***************************************************************************)
RECURSIVE LastIndex(_, _, _)
\* The greatest index at most i at which s holds c, or 0 (indexes from 1).
LastIndex(s, c, i) ==
    IF i = 0 THEN 0 ELSE IF s[i] = c THEN i ELSE LastIndex(s, c, i - 1)

RECURSIVE IndexFrom(_, _, _)
\* The least index at least i at which s holds c, or 0.
IndexFrom(s, c, i) ==
    IF i > Len(s) THEN 0 ELSE IF s[i] = c THEN i ELSE IndexFrom(s, c, i + 1)

HostPortErr == [host |-> <<>>, port |-> <<>>, err |-> TRUE]

\* net.SplitHostPort: the port starts after the last colon; a host in square
\* brackets must end just before that colon; no other bracket or colon may
\* occur.  On an error host and port are empty.
SplitHostPort(hostport) ==
    LET i == LastIndex(hostport, ":", Len(hostport))
        bracketed == hostport # <<>> /\ hostport[1] = "["
        end == IndexFrom(hostport, "]", 1)
        host == IF bracketed THEN SubSeq(hostport, 2, end - 1)
                ELSE SubSeq(hostport, 1, i - 1)
        j == IF bracketed THEN 2 ELSE 1
        k == IF bracketed THEN end + 1 ELSE 1
    IN  IF i = 0 THEN HostPortErr
        ELSE IF bracketed /\ (end = 0 \/ end + 1 # i) THEN HostPortErr
        ELSE IF ~bracketed /\ IndexFrom(host, ":", 1) # 0 THEN HostPortErr
        ELSE IF IndexFrom(hostport, "[", j) # 0 THEN HostPortErr
        ELSE IF IndexFrom(hostport, "]", k) # 0 THEN HostPortErr
        ELSE [host |-> host, port |-> SubSeq(hostport, i + 1, Len(hostport)),
              err |-> FALSE]

\* Service names the resolver's port lookup knows.
KnownServices == {<<"w", "w", "w">>}

\* Host names the resolver's address lookup answers.
KnownHosts == {<<"n", "1">>}

\* LookupPort: an empty port is port 0, a number must be a port number, any
\* other text is looked up as a service name.
LookupPortOk(port) ==
    LET signed == port # <<>> /\ Head(port) \in {"+", "-"}
        body == IF signed THEN Tail(port) ELSE port
    IN  IF AllDigits(body)
        THEN DigitsValue(body, 0) = 0
             \/ (~(signed /\ Head(port) = "-") /\ DigitsValue(body, 0) <= 65535)
        ELSE port \in KnownServices

\* net.ResolveTCPAddr("tcp", addr), as far as its error goes: the empty
\* address resolves (to the zero TCPAddr) without being split; otherwise addr
\* must split, its port must look up, and its host must be empty, a literal
\* IP address or a name the resolver answers.
ResolveTCPAddrOk(addr) ==
    IF addr = <<>> THEN TRUE
    ELSE LET hp == SplitHostPort(addr)
         IN  /\ ~hp.err
             /\ LookupPortOk(hp.port)
             /\ \/ hp.host = <<>>
                \/ ParseIP(hp.host) # <<>>
                \/ hp.host \in KnownHosts

(***************************************************************************)
(* upid.Parse, PID.UnmarshalJSON                                           *)
(* A *UPID is <<>> (nil) or a one-element sequence holding the UPID.       *)
(***************************************************************************)
Parse(in) ==
    LET splits == Split(in, "@")
    IN  IF Len(splits) # 2 THEN [upid |-> <<>>, err |-> TRUE]
        ELSE IF ~ResolveTCPAddrOk(splits[2]) THEN [upid |-> <<>>, err |-> TRUE]
        ELSE LET hp == SplitHostPort(splits[2])
             IN  [upid |-> <<[ID |-> splits[1], Host |-> hp.host, Port |-> hp.port]>>,
                  err |-> hp.err]

\* p.UPID, err = upid.Parse(string(bytes.Trim(data, `" `))); return err
UnmarshalJSON(data) == Parse(Trim(data, {"\"", " "}))

(***************************************************************************)
(* Inputs and calls.  The functions are pure, so a behaviour is one input  *)
(* and one call on it: op, arg and res hold the call made, its argument    *)
(* and its result.  `written` records how a text input was put together    *)
(* (the sub-ranges of a port range descriptor, the parts of a UPID), so    *)
(* that a result can be compared with what was written rather than with a  *)
(* second parse of the text.                                               *)
(***************************************************************************)
SeqsUpTo(S, n) == UNION {[1..k -> S] : k \in 0..n}

RECURSIVE Join(_, _)
Join(texts, sep) ==
    IF texts = <<>> THEN <<>>
    ELSE IF Len(texts) = 1 THEN texts[1]
    ELSE texts[1] \o <<sep>> \o Join(Tail(texts), sep)

RECURSIVE Flatten(_)
Flatten(ss) == IF ss = <<>> THEN <<>> ELSE Head(ss) \o Flatten(Tail(ss))

EmptyTask == [Statuses |-> <<>>, SlaveIPs |-> <<>>, PortRanges |-> <<>>, nil |-> FALSE]

\* Sub-ranges as they are written in a descriptor, with the ports each one
\* stands for: lo-hi in decimal, possibly after a blank.
WellFormedRanges ==
    { [text |-> <<"0", "-", "0">>, wf |-> TRUE, ports |-> << <<"0">> >>],
      [text |-> <<"9", "-", "1", "1">>, wf |-> TRUE,
       ports |-> << <<"9">>, <<"1", "0">>, <<"1", "1">> >>],
      [text |-> <<"3", "-", "1">>, wf |-> TRUE, ports |-> <<>>],
      [text |-> <<" ", "7", "-", "8">>, wf |-> TRUE, ports |-> << <<"7">>, <<"8">> >>] }

\* Sub-ranges with an endpoint that is no integer or is missing.
MalformedRanges ==
    { [text |-> <<"x", "-", "5">>, wf |-> FALSE, ports |-> <<>>],
      [text |-> <<"5", "-", "x">>, wf |-> FALSE, ports |-> <<>>],
      [text |-> <<"5", "-">>, wf |-> FALSE, ports |-> <<>>],
      [text |-> <<"5">>, wf |-> FALSE, ports |-> <<>>],
      [text |-> <<>>, wf |-> FALSE, ports |-> <<>>] }

MaxRanges == 3

RangeLists == SeqsUpTo(WellFormedRanges \cup MalformedRanges, MaxRanges)

PortRangesText(w) ==
    LET list == Join([i \in 1..Len(w.items) |-> w.items[i].text], ",")
    IN  IF w.bracketed THEN <<"[">> \o list \o <<"]">> ELSE list

InitPorts ==
    /\ written \in [bracketed : BOOLEAN, items : RangeLists]
    /\ task = [EmptyTask EXCEPT !.PortRanges = PortRangesText(written)]
    /\ input = <<>>
    /\ op = "none"
    /\ arg = <<>>
    /\ res = NoCall

\* r.Ports() on the task's resources.
CallPorts ==
    /\ op = "none"
    /\ op' = "Ports"
    /\ arg' = <<>>
    /\ res' = Ports(task.PortRanges)
    /\ UNCHANGED <<task, written, input>>

NextPorts == CallPorts

SpecPorts == InitPorts /\ [][NextPorts]_vars

ExpectedPorts(items) == Flatten([i \in 1..Len(items) |-> items[i].ports])

\* C6: Ports on the empty string, on "[]" and on a bracketed list of
\* well-formed lo-hi sub-ranges returns the decimal strings of lo..hi, ascending,
\* for each sub-range from left to right (nothing for lo > hi).
C6_PortsExpandsWellFormed ==
    (/\ op = "Ports"
     /\ written.bracketed \/ written.items = <<>>
     /\ \A i \in 1..Len(written.items) : written.items[i].wf)
    => res = Ok(ExpectedPorts(written.items))

C6_Witness ==
    /\ op = "Ports"
    /\ written.bracketed
    /\ Len(written.items) >= 2
    /\ \A i \in 1..Len(written.items) : written.items[i].wf
    /\ ~res.panic
    /\ Len(res.val) >= 4

\* C7: Ports on a bracketed list never aborts: a malformed sub-range adds
\* nothing and every well-formed sub-range is still fully expanded, in order.
C7_PortsSkipsMalformed ==
    (op = "Ports" /\ written.bracketed) => res = Ok(ExpectedPorts(written.items))

(***************************************************************************)
(* Tasks                                                                   *)
(***************************************************************************)
Addr1 == <<"1", "0", ".", "0", ".", "0", ".", "1">>

Addr2 == <<"1", "0", ".", "0", ".", "0", ".", "2">>

Addr3 == <<"1", "0", ".", "0", ".", "0", ".", "3">>

NotAnIP == <<"n", "o", "t", "-", "a", "n", "-", "i", "p">>

BadOctet == <<"3", "0", "0", ".", "0", ".", "0", ".", "1">>

States == {"TASK_RUNNING", "TASK_FINISHED"}

Status(ts, state, ls, nis) ==
    [Timestamp |-> ts, State |-> state, Labels |-> ls,
     ContainerStatus |-> [NetworkInfos |-> nis]]

NetworkInfo(addrs, legacy, pms) ==
    [IPAddresses |-> [k \in 1..Len(addrs) |-> [IPAddress |-> addrs[k]]],
     IPAddress |-> legacy, PortMappings |-> pms]

Label(k, v) == [Key |-> k, Value |-> v]

CallHostIPs ==
    /\ op = "none"
    /\ op' = "host"
    /\ arg' = <<>>
    /\ res' = Ok(hostIPs(task))
    /\ UNCHANGED <<task, written, input>>

CallMesosIPs ==
    /\ op = "none"
    /\ op' = "mesos"
    /\ arg' = <<>>
    /\ res' = Ok(mesosIPs(task))
    /\ UNCHANGED <<task, written, input>>

CallDockerIPs ==
    /\ op = "none"
    /\ op' = "docker"
    /\ arg' = <<>>
    /\ res' = Ok(dockerIPs(task))
    /\ UNCHANGED <<task, written, input>>

CallNetworkInfoIPs ==
    /\ op = "none"
    /\ op' = "netinfo"
    /\ arg' = <<>>
    /\ res' = Ok(networkInfoIPs(task))
    /\ UNCHANGED <<task, written, input>>

NextSources == CallHostIPs \/ CallMesosIPs \/ CallDockerIPs \/ CallNetworkInfoIPs

StatusSources == {"mesos", "docker", "netinfo"}

\* What the source named name extracts from one Status.
Extract(name, s) ==
    CASE name = "mesos" -> labels(MesosIPLabel, s)
      [] name = "docker" -> labels(DockerIPLabel, s)
      [] name = "netinfo" -> netinfoSrc(s)

(***************************************************************************)
(* Status selection: tasks whose statuses differ in time stamp and state,  *)
(* each carrying one address under every source so that the selected       *)
(* status shows in the result.                                             *)
(***************************************************************************)
Timestamps == {-2, -1, 0, 1}

MaxSelStatuses == 3

Tagged(ts, state, a) ==
    Status(ts, state, <<Label(MesosIPLabel, a), Label(DockerIPLabel, a)>>,
           <<NetworkInfo(<<a>>, <<>>, <<>>)>>)

SelStatuses == {Tagged(ts, state, a) : ts \in Timestamps, state \in States, a \in {Addr1, Addr2}}

InitSelect ==
    /\ \E st \in SeqsUpTo(SelStatuses, MaxSelStatuses) :
          task = [EmptyTask EXCEPT !.Statuses = st, !.SlaveIPs = <<Addr3>>]
    /\ written = <<>>
    /\ input = <<>>
    /\ op = "none"
    /\ arg = <<>>
    /\ res = NoCall

SpecSelect == InitSelect /\ [][NextSources]_vars

Running(st) == {i \in 1..Len(st) : st[i].State = "TASK_RUNNING"}

\* The TASK_RUNNING status with the greatest time stamp, the earliest of
\* those that share it.
Freshest(st) ==
    CHOOSE j \in Running(st) :
        /\ \A k \in Running(st) : st[k].Timestamp <= st[j].Timestamp
        /\ \A k \in Running(st) : k < j => st[k].Timestamp < st[j].Timestamp

\* C1: a status source extracts from exactly the freshest TASK_RUNNING
\* status (the earliest of equally fresh ones), whatever the time stamps, and
\* yields nothing when no status is TASK_RUNNING.
C1_FreshestRunningSelected ==
    op \in StatusSources =>
        res.val = IF Running(task.Statuses) = {} THEN <<>>
                  ELSE Extract(op, task.Statuses[Freshest(task.Statuses)])

Permuted(st, p) == [i \in 1..Len(st) |-> st[p[i]]]

\* C9: with exactly one TASK_RUNNING status, of any time stamp, every
\* permutation of the statuses selects that status, and so does a second call.
C9_OneRunningAnyOrder ==
    (op \in StatusSources /\ Cardinality(Running(task.Statuses)) = 1) =>
        LET st == task.Statuses
            one == st[CHOOSE j \in Running(st) : TRUE]
        IN  /\ res.val = Extract(op, one)
            /\ \A p \in Permutations(1..Len(st)) :
                  sources(op, [task EXCEPT !.Statuses = Permuted(st, p)]) = Extract(op, one)

\* Above the scan's initial ts the selection is the one C1 describes.
SelectionAboveInitTs ==
    (op \in StatusSources
     /\ \A k \in Running(task.Statuses) : task.Statuses[k].Timestamp > InitTs)
    => res.val = IF Running(task.Statuses) = {} THEN <<>>
                 ELSE Extract(op, task.Statuses[Freshest(task.Statuses)])

(***************************************************************************)
(* Label sources: one status with any short list of labels, alone or next  *)
(* to another status that is older, newer or not running.                  *)
(***************************************************************************)
MaxLabels == 2

LabelKeys == {MesosIPLabel, DockerIPLabel, "Other.NetworkSettings.IPAddress"}

LabelLists ==
    SeqsUpTo({Label(k, v) : k \in LabelKeys, v \in {Addr1, Addr2}}, MaxLabels)

Others ==
    { Tagged(0, "TASK_RUNNING", Addr3), Tagged(2, "TASK_RUNNING", Addr3),
      Tagged(2, "TASK_FINISHED", Addr3) }

\* The status lists made of main alone or with one of Others before or after.
WithOthers(main) ==
    {<<main>>} \cup {<<main, o>> : o \in Others} \cup {<<o, main>> : o \in Others}

InitLabels ==
    /\ \E ls \in LabelLists, state \in States :
          \E st \in {<<>>} \cup WithOthers(Status(1, state, ls, <<>>)) :
              task = [EmptyTask EXCEPT !.Statuses = st, !.SlaveIPs = <<Addr3>>]
    /\ written = <<>>
    /\ input = <<>>
    /\ op = "none"
    /\ arg = <<>>
    /\ res = NoCall

SpecLabels == InitLabels /\ [][NextSources]_vars

LabelKey(name) == IF name = "mesos" THEN MesosIPLabel ELSE DockerIPLabel

ValuesOf(ls, key) ==
    LET hit(l) == l.Key = key
        m == SelectSeq(ls, hit)
    IN  [i \in 1..Len(m) |-> m[i].Value]

MaxAddrs == 2

MaxNetInfos == 2

AddrNetInfos ==
    {NetworkInfo(addrs, legacy, <<>>) :
        addrs \in SeqsUpTo({Addr1, Addr2}, MaxAddrs), legacy \in {<<>>, Addr3}}

InitNetinfo ==
    /\ \E nis \in SeqsUpTo(AddrNetInfos, MaxNetInfos), state \in States :
          \E st \in {<<>>} \cup WithOthers(Status(1, state, <<>>, nis)) :
              task = [EmptyTask EXCEPT !.Statuses = st, !.SlaveIPs = <<Addr3>>]
    /\ written = <<>>
    /\ input = <<>>
    /\ op = "none"
    /\ arg = <<>>
    /\ res = NoCall

SpecNetinfo == InitNetinfo /\ [][NextSources]_vars

\* What one NetworkInfo contributes: its IPAddresses when there are any,
\* else its single ip_address when that is not empty.
NetInfoAddrs(ni) ==
    IF ni.IPAddresses # <<>>
    THEN [k \in 1..Len(ni.IPAddresses) |-> ni.IPAddresses[k].IPAddress]
    ELSE IF ni.IPAddress # <<>> THEN <<ni.IPAddress>> ELSE <<>>

\* C5: netinfo returns exactly the contributions of the selected status's
\* NetworkInfos, concatenated in order, and no other element.
C5_NetinfoExactly ==
    (op = "netinfo" /\ Running(task.Statuses) # {}) =>
        LET nis == task.Statuses[Freshest(task.Statuses)].ContainerStatus.NetworkInfos
        IN  res.val = Flatten([n \in 1..Len(nis) |-> NetInfoAddrs(nis[n])])

(***************************************************************************)
(* Task.IPs: tasks whose sources yield addresses and unparsable text.      *)
(***************************************************************************)
MaxSrcs == 2

MaxIPStatuses == 2

MixedLabels ==
    << Label(MesosIPLabel, Addr1), Label(DockerIPLabel, NotAnIP),
       Label(MesosIPLabel, BadOctet), Label(DockerIPLabel, Addr2) >>

MixedNetInfos ==
    << NetworkInfo(<<Addr2, NotAnIP>>, Addr3, <<>>), NetworkInfo(<<>>, Addr3, <<>>),
       NetworkInfo(<<>>, <<>>, <<>>) >>

IPStatuses ==
    {Status(1, state, MixedLabels, MixedNetInfos) : state \in States}
    \cup {Status(1, state, <<Label(DockerIPLabel, Addr3)>>,
                 <<NetworkInfo(<<>>, NotAnIP, <<>>)>>) : state \in States}

SlaveIPLists == {<<>>, <<Addr1>>, <<Addr2, NotAnIP, Addr1>>}

InitIPs ==
    /\ \E st \in SeqsUpTo(IPStatuses, MaxIPStatuses), ips \in SlaveIPLists :
          task = [EmptyTask EXCEPT !.Statuses = st, !.SlaveIPs = ips]
    /\ written = <<>>
    /\ input = <<>>
    /\ op = "none"
    /\ arg = <<>>
    /\ res = NoCall

\* t.IPs(srcs...), on the task or on a nil *Task.
CallIPs ==
    \E srcs \in SeqsUpTo(SourceNames \cup {"bogus"}, MaxSrcs), t \in {task, NilTask} :
        /\ op = "none"
        /\ op' = "IPs"
        /\ arg' = [srcs |-> srcs, nil |-> t.nil]
        /\ res' = Ok(IPs(t, srcs))
        /\ UNCHANGED <<task, written, input>>

NextIPs == CallIPs

SpecIPs == InitIPs /\ [][NextIPs]_vars

\* The addresses the candidate strings of the model stand for.
AddressOf(c) ==
    CASE c = Addr1 -> <<0, 0, 0, 0, 0, 0, 0, 0, 0, 0, 255, 255, 10, 0, 0, 1>>
      [] c = Addr2 -> <<0, 0, 0, 0, 0, 0, 0, 0, 0, 0, 255, 255, 10, 0, 0, 2>>
      [] c = Addr3 -> <<0, 0, 0, 0, 0, 0, 0, 0, 0, 0, 255, 255, 10, 0, 0, 3>>
      [] OTHER -> <<>>

Addresses(cands) ==
    LET isAddr(c) == AddressOf(c) # <<>>
        m == SelectSeq(cands, isAddr)
    IN  [i \in 1..Len(m) |-> AddressOf(m[i])]

Candidates(name, t) ==
    IF name = "host" THEN t.SlaveIPs
    ELSE IF name \in StatusSources THEN sources(name, t)
    ELSE <<>>

\* C4: IPs(srcs) is, source after source in the order of srcs, the addresses
\* of the source's candidate strings that are IP addresses, in the source's
\* order; unknown names and unparsable strings add nothing, and host
\* contributes the SlaveIPs.
C4_IPsConcatenatesSources ==
    (op = "IPs" /\ ~arg.nil) =>
        res = Ok(Flatten([i \in 1..Len(arg.srcs) |->
                            Addresses(Candidates(arg.srcs[i], task))]))

C4_Witness ==
    /\ op = "IPs"
    /\ ~arg.nil
    /\ arg.srcs = <<"host", "netinfo">>
    /\ task.SlaveIPs = <<Addr2, NotAnIP, Addr1>>
    /\ Len(res.val) = 4

(***************************************************************************)
(* MapPort: the first status has any short list of NetworkInfos with port  *)
(* mappings; a later, running status maps the same host ports elsewhere.   *)
(***************************************************************************)
MaxPortMappings == 2

MaxPortNetInfos == 2

PortMapping(h, c) == [Protocol |-> "tcp", HostPort |-> h, ContainerPort |-> c]

PortMappings == {PortMapping(8080, 80), PortMapping(8080, 81), PortMapping(9090, 90)}

HostPorts == {8080, 9090, 7070}

PortNetInfos ==
    {NetworkInfo(<<>>, <<>>, pms) : pms \in SeqsUpTo(PortMappings, MaxPortMappings)}

Later ==
    Status(2, "TASK_RUNNING", <<>>,
           <<NetworkInfo(<<>>, <<>>, <<PortMapping(8080, 99), PortMapping(7070, 70)>>)>>)

InitMapPort ==
    /\ \E nis \in SeqsUpTo(PortNetInfos, MaxPortNetInfos), state \in States :
          \E st \in {<<>>, <<Status(1, state, <<>>, nis)>>,
                     <<Status(1, state, <<>>, nis), Later>>} :
              task = [EmptyTask EXCEPT !.Statuses = st]
    /\ written = <<>>
    /\ input = <<>>
    /\ op = "none"
    /\ arg = <<>>
    /\ res = NoCall

\* MapPort(t, hostport)
CallMapPort ==
    \E hostport \in HostPorts :
        /\ op = "none"
        /\ op' = "MapPort"
        /\ arg' = hostport
        /\ res' = MapPort(task, hostport)
        /\ UNCHANGED <<task, written, input>>

NextMapPort == CallMapPort

SpecMapPort == InitMapPort /\ [][NextMapPort]_vars

\* C2: MapPort on a task without statuses returns the host port unchanged.
C2_MapPortNoStatuses ==
    (op = "MapPort" /\ task.Statuses = <<>>) => res = Ok(arg)

\* All port mappings of a status, NetworkInfo after NetworkInfo.
AllMappings(s) ==
    LET nis == s.ContainerStatus.NetworkInfos
    IN  Flatten([n \in 1..Len(nis) |-> nis[n].PortMappings])

\* C3: with at least one status, MapPort returns the container port of the
\* first mapping of the first status whose host port is the input, and the
\* input when the first status has no such mapping, whatever later statuses hold.
C3_MapPortFirstStatus ==
    (op = "MapPort" /\ task.Statuses # <<>>) =>
        LET pms == AllMappings(task.Statuses[1])
            hits == {i \in 1..Len(pms) : pms[i].HostPort = arg}
        IN  res = Ok(IF hits = {} THEN arg
                     ELSE pms[CHOOSE i \in hits : \A k \in hits : i <= k].ContainerPort)

C3_Witness ==
    /\ op = "MapPort"
    /\ arg = 8080
    /\ Len(task.Statuses) = 2
    /\ task.Statuses[1].State = "TASK_FINISHED"
    /\ Len(task.Statuses[1].ContainerStatus.NetworkInfos) = 2
    /\ res = Ok(81)

(***************************************************************************)
(* UPID inputs: an id followed by any number of "@"-prefixed address       *)
(* parts.  good tells whether the part is a host:port that resolves, and   *)
(* host and port are the parts it is written from.                         *)
(***************************************************************************)
MaxAts == 2

P80 == <<"8", "0">>

N1 == <<"n", "1">>

AddrPart(text, good, host, port) ==
    [text |-> text, good |-> good, host |-> host, port |-> port]

GoodAddrParts ==
    { AddrPart(Addr1 \o <<":">> \o P80, TRUE, Addr1, P80),
      AddrPart(N1 \o <<":">> \o P80, TRUE, N1, P80),
      AddrPart(<<"[">> \o N1 \o <<"]", ":">> \o P80, TRUE, N1, P80),
      AddrPart(<<":">> \o P80, TRUE, <<>>, P80),
      AddrPart(Addr1 \o <<":">>, TRUE, Addr1, <<>>),
      AddrPart(Addr1 \o <<":", "w", "w", "w">>, TRUE, Addr1, <<"w", "w", "w">>) }

BadAddrParts ==
    { AddrPart(<<>>, FALSE, <<>>, <<>>),
      AddrPart(Addr1, FALSE, <<>>, <<>>),
      AddrPart(<<"z", "z", ":">> \o P80, FALSE, <<>>, <<>>),
      AddrPart(BadOctet \o <<":">> \o P80, FALSE, <<>>, <<>>),
      AddrPart(Addr1 \o <<":", "x", "x">>, FALSE, <<>>, <<>>),
      AddrPart(Addr1 \o <<":", "9", "9", "9", "9", "9">>, FALSE, <<>>, <<>>),
      AddrPart(Addr1 \o <<":">> \o P80 \o <<":">> \o P80, FALSE, <<>>, <<>>),
      AddrPart(<<"[">> \o N1 \o <<":">> \o P80, FALSE, <<>>, <<>>) }

Ids == {<<>>, <<"s", "c", "h", "e", "d">>}

UPIDText(w) == Join(<<w.id>> \o [i \in 1..Len(w.parts) |-> w.parts[i].text], "@")

InitUPID ==
    /\ written \in [id : Ids, parts : SeqsUpTo(GoodAddrParts \cup BadAddrParts, MaxAts)]
    /\ input = UPIDText(written)
    /\ task = EmptyTask
    /\ op = "none"
    /\ arg = <<>>
    /\ res = NoCall

\* upid.Parse(input)
CallParse ==
    /\ op = "none"
    /\ op' = "Parse"
    /\ arg' = input
    /\ res' = Ok(Parse(input))
    /\ UNCHANGED <<task, written, input>>

\* p.UnmarshalJSON(data), data being the input as a JSON string, possibly
\* with blanks inside the quotes.
CallUnmarshalJSON ==
    \E pad \in {<<>>, <<" ">>} :
        /\ op = "none"
        /\ op' = "UnmarshalJSON"
        /\ arg' = <<"\"">> \o pad \o input \o pad \o <<"\"">>
        /\ res' = Ok(UnmarshalJSON(arg'))
        /\ UNCHANGED <<task, written, input>>

NextUPID == CallParse \/ CallUnmarshalJSON

SpecUPID == InitUPID /\ [][NextUPID]_vars

CountOf(s, c) == Cardinality({i \in 1..Len(s) : s[i] = c})

\* C8: Parse, and UnmarshalJSON through it, returns an error and no UPID
\* unless the input holds exactly one "@" followed by a host:port that
\* resolves; then it returns, without error, the UPID of the id before the
\* "@" and the host and port after it.
C8_ParseErrorOrUPID ==
    op \in {"Parse", "UnmarshalJSON"} =>
        IF CountOf(input, "@") = 1 /\ written.parts[1].good
        THEN res.val = [upid |-> <<[ID |-> written.id, Host |-> written.parts[1].host,
                                    Port |-> written.parts[1].port]>>,
                        err |-> FALSE]
        ELSE res.val = [upid |-> <<>>, err |-> TRUE]

\* Apart from the empty address, C8 is what Parse does.
ParseOfNonEmptyAddress ==
    (op \in {"Parse", "UnmarshalJSON"}
     /\ ~(Len(written.parts) = 1 /\ written.parts[1].text = <<>>))
    => C8_ParseErrorOrUPID

====
